---- MODULE Spec2Model ----
(***************************************************************************)
(* Model of the mongoose plugin caseInsensitiveField                       *)
(* (src/development/index.js).                                             *)
(*                                                                         *)
(* A JavaScript string is a sequence of one-character strings, so that     *)
(* concatenation, split, trim and toLowerCase are computed character by    *)
(* character.  A JavaScript object is a sequence of [key, value] entries   *)
(* in insertion order (schema.paths, schema.tree) or a function from its   *)
(* own property names to values (documents, query conditions).             *)
(***************************************************************************)
EXTENDS Naturals, Sequences, FiniteSets

VARIABLES
    paths,      \* schema.paths : entries [key, value], insertion order
    tree,       \* schema.tree  : entries [key, value], insertion order
    hooks,      \* pre hooks registered with schema.pre, registration order
    calls,      \* records of the caseInsensitiveField calls made, in order
    last        \* record of the last hook invocation

vars == <<paths, tree, hooks, calls, last>>

----------------------------------------------------------------------------
(* Bounds *)

MaxFields == 2      \* declared fields of the schema before the first call
MaxCalls  == 2      \* caseInsensitiveField calls on one schema
MaxStrLen == 1      \* length of the string values held by documents/queries

----------------------------------------------------------------------------
(* JavaScript strings *)

\* String.prototype.toLowerCase, one character
LowerChar(c) ==
    CASE c = "A" -> "a"
      [] c = "B" -> "b"
      [] OTHER   -> c

\* String.prototype.toLowerCase
LowerStr(s) == [i \in 1..Len(s) |-> LowerChar(s[i])]

IsSpace(c) == c = " "

RECURSIVE TrimLeft(_)
TrimLeft(s) ==
    IF s # <<>> /\ IsSpace(Head(s)) THEN TrimLeft(Tail(s)) ELSE s

RECURSIVE TrimRight(_)
TrimRight(s) ==
    IF s # <<>> /\ IsSpace(s[Len(s)])
    THEN TrimRight(SubSeq(s, 1, Len(s) - 1))
    ELSE s

\* String.prototype.trim
Trim(s) == TrimRight(TrimLeft(s))

\* String.prototype.split(sep), sep a single character: the list of the
\* pieces between separators (one piece, possibly empty, more than separators)
RECURSIVE SplitFrom(_, _, _)
SplitFrom(s, sep, cur) ==
    IF s = <<>> THEN <<cur>>
    ELSE IF Head(s) = sep
         THEN <<cur>> \o SplitFrom(Tail(s), sep, <<>>)
         ELSE SplitFrom(Tail(s), sep, Append(cur, Head(s)))

Split(s, sep) == SplitFrom(s, sep, <<>>)

----------------------------------------------------------------------------
(* JavaScript values held by a document property or a query condition *)

StringValue(s) == [t |-> "string", s |-> s]
Undefined      == [t |-> "undefined", s |-> <<>>]
Null           == [t |-> "null", s |-> <<>>]
NumberValue    == [t |-> "number", s |-> <<>>]      \* e.g. 42
OperatorObject == [t |-> "object", s |-> <<>>]      \* e.g. {$regex: /x/}
ErrorValue     == [t |-> "error", s |-> <<>>]       \* a caught TypeError

\* obj[k] of a plain object: undefined when k is not an own property
GetProp(obj, k) == IF k \in DOMAIN obj THEN obj[k] ELSE Undefined

\* obj[k] = v
SetProp(obj, k, v) ==
    [p \in (DOMAIN obj) \cup {k} |-> IF p = k THEN v ELSE obj[p]]

\* delete obj[k]
DeleteProp(obj, k) == [p \in (DOMAIN obj) \ {k} |-> obj[p]]

\* v.toLowerCase(): a TypeError unless v is a string
ToLowerCase(v) ==
    IF v.t = "string"
    THEN [threw |-> FALSE, value |-> StringValue(LowerStr(v.s))]
    ELSE [threw |-> TRUE,  value |-> ErrorValue]

----------------------------------------------------------------------------
(* Insertion-ordered objects: schema.paths and schema.tree *)

Keys(obj) == [i \in 1..Len(obj) |-> obj[i].key]

HasKey(obj, k) == \E i \in 1..Len(obj) : obj[i].key = k

IndexOf(obj, k) == CHOOSE i \in 1..Len(obj) : obj[i].key = k

\* obj[k], for a key the object has
Get(obj, k) == obj[IndexOf(obj, k)].value

\* obj[k] = v : an existing key keeps its place, a new key goes last
Put(obj, k, v) ==
    IF HasKey(obj, k)
    THEN [obj EXCEPT ![IndexOf(obj, k)].value = v]
    ELSE Append(obj, [key |-> k, value |-> v])

----------------------------------------------------------------------------
(* Field descriptors (SchemaType) and tree nodes *)

\* The descriptor mongoose builds for a declared field.  options is the
\* field's definition object, always present on a SchemaType;
\* caseInsensitive FALSE stands for an absent or falsy option.
Descriptor(key, ci) ==
    [path      |-> key,
     options   |-> [caseInsensitive |-> ci],
     lowercase |-> FALSE,
     selected  |-> TRUE]

\* schema.tree[key]: the definition the field was declared with
TreeNode(ci) == [type |-> "String", caseInsensitive |-> ci, select |-> TRUE]

\* schema.path(p).lowercase(true)
SetLowercase(obj, p) ==
    Put(obj, p, [Get(obj, p) EXCEPT !.lowercase = TRUE])

\* schema.path(p).select(val)
SetSelect(obj, p, val) ==
    Put(obj, p, [Get(obj, p) EXCEPT !.selected = val])

----------------------------------------------------------------------------
(* Options *)

ArrayPaths(list) == [kind |-> "array",  list |-> list, str |-> <<>>]
StringPaths(str) == [kind |-> "string", list |-> <<>>, str |-> str]

\* the first argument of _.merge
Defaults ==
    [prefix        |-> <<"_", "_">>,
     suffix        |-> <<>>,
     select        |-> FALSE,
     paths         |-> ArrayPaths(<<>>),
     usePathOption |-> TRUE]

\* _.merge(defaults, options): the caller's fields override the defaults
Merge(defaults, options) ==
    [k \in DOMAIN defaults |->
        IF k \in DOMAIN options THEN options[k] ELSE defaults[k]]

\* truthiness of options.paths: an array is truthy, a string unless empty
PathsTruthy(p) == p.kind = "array" \/ p.str # <<>>

\* a non-empty string becomes the list of its trimmed comma-separated parts
TransformPaths(p) ==
    IF PathsTruthy(p) /\ p.kind = "string"
    THEN LET parts == Split(p.str, ",")
         IN  ArrayPaths([i \in 1..Len(parts) |-> Trim(parts[i])])
    ELSE p

\* options as the forEach callback sees them
NormalizeOptions(o) ==
    LET m == Merge(Defaults, o)
    IN  [m EXCEPT !.paths = TransformPaths(m.paths)]

_createCaseInsensitivePath(options, schemaPath) ==
    options.prefix \o schemaPath \o options.suffix

----------------------------------------------------------------------------
(* Installation *)

\* the schema and the progress of one caseInsensitiveField call
\*   visited : keys the forEach callback was invoked with
\*   done    : keys whose shadow was cloned, patched and hooked
\*   threw   : the callback threw the "already used" Error
\*   failed  : the keys at which it threw (at most one)
StartState(p, t, h) ==
    [paths |-> p, tree |-> t, hooks |-> h,
     visited |-> <<>>, done |-> <<>>, threw |-> FALSE, failed |-> <<>>]

\* _clonePath without the assignment of the clone's path
_clonePathKeepsLabel(st, fromPath, toPath) ==
    [st EXCEPT
        !.paths = Put(st.paths, toPath, Get(st.paths, fromPath)),
        !.tree  = Put(st.tree, toPath, Get(st.tree, fromPath))]

_clonePath(st, fromPath, toPath) ==
    [st EXCEPT
        !.paths = Put(st.paths, toPath,
                      [Get(st.paths, fromPath) EXCEPT !.path = toPath]),
        !.tree  = Put(st.tree, toPath, Get(st.tree, fromPath))]

\* schema.pre(method, fn) for each method, fn closing over key and
\* caseInsensitivePath
RegisterHooks(h, methods, key, ciPath) ==
    h \o [i \in 1..Len(methods) |->
            [method |-> methods[i], key |-> key, caseInsensitivePath |-> ciPath]]

\* isValidPath reading the field's option whatever usePathOption says
isValidPathIgnoresSwitch(options, value, key) ==
    \/ value.options.caseInsensitive
    \/ /\ PathsTruthy(options.paths)
       /\ \E i \in 1..Len(options.paths.list) : options.paths.list[i] = key

isValidPath(options, value, key) ==
    \/ options.usePathOption /\ value.options.caseInsensitive
    \/ /\ PathsTruthy(options.paths)
       /\ \E i \in 1..Len(options.paths.list) : options.paths.list[i] = key

\* the patched clone of key at ciPath and its three hooks
Shadowed(st, options, key, ciPath) ==
    LET cloned  == _clonePath(st, key, ciPath)
        patched == SetSelect(SetLowercase(cloned.paths, ciPath),
                             ciPath, options.select)
    IN  [cloned EXCEPT
           !.paths = patched,
           !.hooks = RegisterHooks(
                        RegisterHooks(@, <<"validate">>, key, ciPath),
                        <<"find", "findOne">>, key, ciPath),
           !.done  = Append(@, key)]

\* the callback returning, instead of throwing, when the path is in use
IterateeSkipsCollision(st, options, key) ==
    LET value   == Get(st.paths, key)
        ciPath  == _createCaseInsensitivePath(options, key)
        seen    == [st EXCEPT !.visited = Append(@, key)]
    IN  IF ~isValidPath(options, value, key) THEN seen
        ELSE IF HasKey(st.paths, ciPath) THEN seen
        ELSE Shadowed(seen, options, key, ciPath)

\* the callback without the check that the path is in use
IterateeOverwrites(st, options, key) ==
    LET value   == Get(st.paths, key)
        ciPath  == _createCaseInsensitivePath(options, key)
        seen    == [st EXCEPT !.visited = Append(@, key)]
    IN  IF ~isValidPath(options, value, key) THEN seen
        ELSE Shadowed(seen, options, key, ciPath)

\* the forEach callback, called with (value, key)
Iteratee(st, options, key) ==
    LET value   == Get(st.paths, key)
        ciPath  == _createCaseInsensitivePath(options, key)
        seen    == [st EXCEPT !.visited = Append(@, key)]
    IN  IF ~isValidPath(options, value, key) THEN seen
        ELSE IF HasKey(st.paths, ciPath)
        THEN [seen EXCEPT !.threw = TRUE, !.failed = <<key>>]
        ELSE Shadowed(seen, options, key, ciPath)

\* the keys of the object as the callbacks left it (a loop over the live
\* object), followed one generation deep
ForEachKeysLive(st, keys) ==
    LET live == Keys(st.paths)
    IN  SubSeq(live, 1, IF Len(live) < 2 * Len(keys) THEN Len(live)
                        ELSE 2 * Len(keys))

\* the keys _.forEach iterates once callbacks have run: still the keys read
\* before the first callback, whatever the callbacks added to the object
ForEachKeys(st, keys) == keys

\* _.forEach(schema.paths, callback) from the i-th key on; a throw of the
\* callback ends the loop
RECURSIVE ForEach(_, _, _, _)
ForEach(st, options, keys, i) ==
    IF i > Len(ForEachKeys(st, keys)) \/ st.threw THEN st
    ELSE ForEach(Iteratee(st, options, ForEachKeys(st, keys)[i]),
                 options, keys, i + 1)

\* caseInsensitiveField(schema, o)
caseInsensitiveField(p, t, h, o) ==
    LET options == NormalizeOptions(o)
    IN  ForEach(StartState(p, t, h), options, Keys(p), 1)

----------------------------------------------------------------------------
(* Hooks.  this is the document (validate) or the query's _conditions     *)
(* (find, findOne); next lists the arguments of the calls of next, in      *)
(* order; threw is a synchronous throw out of the hook.                    *)

NoArgument == Undefined     \* next()

\* PreValidate assigning the lowercased value to the field itself
PreValidateOverwritesKey(this, key, ciPath) ==
    LET r == ToLowerCase(GetProp(this, key))
    IN  IF r.threw
        THEN [this |-> this, next |-> <<r.value>>, threw |-> FALSE]
        ELSE [this  |-> SetProp(this, key, r.value),
              next  |-> <<NoArgument>>,
              threw |-> FALSE]

\* PreValidate whose catch block lacks the return
PreValidateFallsThrough(this, key, ciPath) ==
    LET r == ToLowerCase(GetProp(this, key))
    IN  IF r.threw
        THEN [this |-> this, next |-> <<r.value, NoArgument>>, threw |-> FALSE]
        ELSE [this  |-> SetProp(this, ciPath, r.value),
              next  |-> <<NoArgument>>,
              threw |-> FALSE]

\* the function registered with schema.pre('validate', ...)
PreValidate(this, key, ciPath) ==
    LET r == ToLowerCase(GetProp(this, key))
    IN  IF r.threw
        THEN [this |-> this, next |-> <<r.value>>, threw |-> FALSE]
        ELSE [this  |-> SetProp(this, ciPath, r.value),
              next  |-> <<NoArgument>>,
              threw |-> FALSE]

\* PreFind without the delete of the original condition
PreFindKeepsKey(this, key, ciPath) ==
    IF GetProp(this, key) # Undefined
    THEN LET r == ToLowerCase(GetProp(this, key))
         IN  IF r.threw
             THEN [this |-> this, next |-> <<>>, threw |-> TRUE]
             ELSE [this  |-> SetProp(this, ciPath, r.value),
                   next  |-> <<NoArgument>>,
                   threw |-> FALSE]
    ELSE [this |-> this, next |-> <<NoArgument>>, threw |-> FALSE]

\* the function registered with schema.pre('find', ...) and
\* schema.pre('findOne', ...); this stands for this._conditions
PreFind(this, key, ciPath) ==
    IF GetProp(this, key) # Undefined
    THEN LET r == ToLowerCase(GetProp(this, key))
         IN  IF r.threw
             THEN [this |-> this, next |-> <<>>, threw |-> TRUE]
             ELSE [this  |-> DeleteProp(SetProp(this, ciPath, r.value), key),
                   next  |-> <<NoArgument>>,
                   threw |-> FALSE]
    ELSE [this |-> this, next |-> <<NoArgument>>, threw |-> FALSE]

----------------------------------------------------------------------------
(* Inputs *)

\* names of the fields a schema declares
Names == { <<"a">>, <<"B">>, <<"_", "_", "a">> }

\* a property of a document or a condition no field of the schema is named
OtherProp == <<"o">>

ValueChars == {"a", "A"}

Strings == UNION { [1..n -> ValueChars] : n \in 0..MaxStrLen }

Values ==
    { StringValue(s) : s \in Strings }
        \cup {Undefined, Null, NumberValue, OperatorObject}

\* the options callers pass
OptionSets ==
    { <<>>,
      [paths |-> StringPaths(<<"a", ",", " ", "B", " ">>)],
      [paths |-> ArrayPaths(<< <<"a">>, <<" ", "B">> >>), usePathOption |-> FALSE],
      [prefix |-> <<"_">>, select |-> TRUE],
      [prefix |-> <<>>, suffix |-> <<"_">>, paths |-> StringPaths(<<>>)],
      [prefix |-> <<>>, paths |-> ArrayPaths(<< <<"B">> >>), usePathOption |-> FALSE] }

\* the objects a hook closing over key and ciPath is run on: key absent or
\* holding any value, with or without a stale value at ciPath and an
\* unrelated property
Receivers(key, ciPath) ==
    LET stale == [p \in {ciPath, OtherProp} |->
                    IF p = ciPath THEN StringValue(<<>>) ELSE NumberValue]
        rest  == { <<>>, stale }
    IN  rest \cup { SetProp(f, key, v) : f \in rest, v \in Values }

----------------------------------------------------------------------------
(* Specification *)

NoCall ==
    [made |-> FALSE, options |-> Defaults,
     paths |-> <<>>, tree |-> <<>>, hooks |-> <<>>,
     visited |-> <<>>, done |-> <<>>, threw |-> FALSE, failed |-> <<>>]

\* the last call made on the schema, and how many were made
call == IF calls = <<>> THEN NoCall ELSE calls[Len(calls)]

ncalls == Len(calls)

NoHookRun ==
    [kind |-> "none", hook |-> <<>>, this |-> <<>>,
     out |-> [this |-> <<>>, next |-> <<>>, threw |-> FALSE]]

\* a schema declaring 1..MaxFields fields with distinct names
Init ==
    \E n \in 1..MaxFields :
      \E names \in [1..n -> Names], flags \in [1..n -> BOOLEAN] :
        /\ \A i, j \in 1..n : names[i] = names[j] => i = j
        /\ paths = [i \in 1..n |->
                      [key |-> names[i], value |-> Descriptor(names[i], flags[i])]]
        /\ tree  = [i \in 1..n |->
                      [key |-> names[i], value |-> TreeNode(flags[i])]]
        /\ hooks = <<>>
        /\ calls = <<>>
        /\ last = NoHookRun

\* schema.plugin(caseInsensitiveField, o)
Install(o) ==
    /\ ncalls < MaxCalls
    /\ LET r == caseInsensitiveField(paths, tree, hooks, o)
       IN  /\ paths' = r.paths
           /\ tree'  = r.tree
           /\ hooks' = r.hooks
           /\ calls' = Append(calls,
                        [made |-> TRUE, options |-> NormalizeOptions(o),
                         paths |-> paths, tree |-> tree, hooks |-> hooks,
                         visited |-> r.visited, done |-> r.done,
                         threw |-> r.threw, failed |-> r.failed])
    /\ last' = NoHookRun

\* the host runs the i-th registered hook, a validate hook, on a document.
\* last keeps the first invocation after an installation: invocations leave
\* the schema alone, so later ones reach no other state.
RunValidateHook(i, doc) ==
    /\ last.kind = "none"
    /\ hooks[i].method = "validate"
    /\ last' = [kind |-> "validate", hook |-> hooks[i], this |-> doc,
                out |-> PreValidate(doc, hooks[i].key,
                                    hooks[i].caseInsensitivePath)]
    /\ UNCHANGED <<paths, tree, hooks, calls>>

\* the host runs the i-th registered hook, a find or findOne hook, on the
\* conditions of a query
RunFindHook(i, conditions) ==
    /\ last.kind = "none"
    /\ hooks[i].method \in {"find", "findOne"}
    /\ last' = [kind |-> "find", hook |-> hooks[i], this |-> conditions,
                out |-> PreFind(conditions, hooks[i].key,
                                hooks[i].caseInsensitivePath)]
    /\ UNCHANGED <<paths, tree, hooks, calls>>

\* installations only: up to MaxCalls calls on one schema
NextInstall == \E o \in OptionSets : Install(o)

SpecInstall == Init /\ [][NextInstall]_vars

\* the hooks of a schema the plugin was applied to once
NextHooks ==
    \/ \E o \in OptionSets : ncalls = 0 /\ Install(o)
    \/ \E i \in 1..Len(hooks) :
         \E doc \in Receivers(hooks[i].key, hooks[i].caseInsensitivePath) :
            RunValidateHook(i, doc)
    \/ \E i \in 1..Len(hooks) :
         \E conditions \in Receivers(hooks[i].key, hooks[i].caseInsensitivePath) :
            RunFindHook(i, conditions)

SpecHooks == Init /\ [][NextHooks]_vars

TypeOK ==
    /\ Len(paths) = Len(tree)
    /\ Keys(paths) = Keys(tree)
    /\ ncalls \in 0..MaxCalls
    /\ last.kind \in {"none", "validate", "find"}

----------------------------------------------------------------------------
(* Properties of the hooks, under SpecHooks *)

\* the hook last run closes over key and prefix + key + suffix
LastHookIsDerived ==
    last.hook.caseInsensitivePath =
        call.options.prefix \o last.hook.key \o call.options.suffix

LastKeyValue == GetProp(last.this, last.hook.key)

\* every property but those of ps is the same before and after the hook
SameExcept(ps) ==
    /\ (DOMAIN last.out.this) \ ps = (DOMAIN last.this) \ ps
    /\ \A p \in (DOMAIN last.this) \ ps : last.out.this[p] = last.this[p]

\* C1: a find or findOne hook run on conditions holding a string v at key
\* leaves prefix+key+suffix = lowercase(v), no entry for key, every other
\* entry as it was, and has called next once, with no error.
C1_FindRewritesCondition ==
    (last.kind = "find" /\ LastKeyValue.t = "string") =>
        /\ LastHookIsDerived
        /\ last.hook.caseInsensitivePath \in DOMAIN last.out.this
        /\ last.out.this[last.hook.caseInsensitivePath]
              = StringValue(LowerStr(LastKeyValue.s))
        /\ last.hook.key \notin DOMAIN last.out.this
        /\ SameExcept({last.hook.key, last.hook.caseInsensitivePath})
        /\ ~last.out.threw
        /\ last.out.next = <<NoArgument>>

\* a findOne hook rewrote {key: "A", o: 42, ...} to {ciPath: "a", o: 42}
C1_Witness ==
    /\ last.kind = "find"
    /\ last.hook.method = "findOne"
    /\ LastKeyValue = StringValue(<<"A">>)
    /\ OtherProp \in DOMAIN last.this
    /\ last.out.this[last.hook.caseInsensitivePath] = StringValue(<<"a">>)
    /\ last.out.this[OtherProp] = NumberValue
    /\ last.hook.key \notin DOMAIN last.out.this

\* C2: a validate hook run on a document holding a string s at key leaves
\* lowercase(s) at prefix+key+suffix and s at key, and has called next
\* exactly once, with no error.
C2_ValidateSetsShadow ==
    (last.kind = "validate" /\ LastKeyValue.t = "string") =>
        /\ LastHookIsDerived
        /\ GetProp(last.out.this, last.hook.caseInsensitivePath)
              = StringValue(LowerStr(LastKeyValue.s))
        /\ GetProp(last.out.this, last.hook.key) = LastKeyValue
        /\ SameExcept({last.hook.caseInsensitivePath})
        /\ ~last.out.threw
        /\ last.out.next = <<NoArgument>>

\* a validate hook ran on a document with "A" at key: "a" at the shadow
C2_Witness ==
    /\ last.kind = "validate"
    /\ LastKeyValue = StringValue(<<"A">>)
    /\ last.out.this[last.hook.caseInsensitivePath] = StringValue(<<"a">>)
    /\ last.out.this[last.hook.key] = StringValue(<<"A">>)

\* C7: a validate hook run on a document whose value at key is absent, null
\* or otherwise not a string does not throw; it calls next exactly once, with
\* the error, and leaves the document's value at prefix+key+suffix as it was.
C7_ValidateReportsError ==
    (last.kind = "validate" /\ LastKeyValue.t # "string") =>
        /\ LastHookIsDerived
        /\ ~last.out.threw
        /\ Len(last.out.next) = 1
        /\ last.out.next[1].t = "error"
        /\ last.out.this = last.this

\* a validate hook ran on a document without key and with a stale shadow
C7_Witness ==
    /\ last.kind = "validate"
    /\ last.hook.key \notin DOMAIN last.this
    /\ last.hook.caseInsensitivePath \in DOMAIN last.this
    /\ last.out.next = <<ErrorValue>>

\* C8: a find or findOne hook run on conditions holding a defined non-string
\* value (null, a number) at key does not throw; it calls next exactly once,
\* with an error.
C8_FindReportsError ==
    (last.kind = "find" /\ LastKeyValue.t \in {"null", "number"}) =>
        /\ ~last.out.threw
        /\ Len(last.out.next) = 1
        /\ last.out.next[1].t = "error"

\* C9: a find or findOne hook run on conditions holding an operator object
\* at key leaves the conditions as they were and the query proceeds.
C9_FindSkipsOperators ==
    (last.kind = "find" /\ LastKeyValue.t = "object") =>
        /\ last.out.this = last.this
        /\ ~last.out.threw
        /\ last.out.next = <<NoArgument>>

----------------------------------------------------------------------------
(* Properties of the installation, under SpecInstall.  They compare the    *)
(* schema after the last call with the schema that call was given.         *)

Methods == {"validate", "find", "findOne"}

\* the fields the schema had when call c began
PreKeys(c) == { c.paths[i].key : i \in 1..Len(c.paths) }

\* prefix + key + suffix under the options of call c
Derived(c, key) == c.options.prefix \o key \o c.options.suffix

\* key is eligible in call c
Eligible(c, key) ==
    \/ c.options.usePathOption /\ Get(c.paths, key).options.caseInsensitive
    \/ key \in { c.options.paths.list[i] : i \in 1..Len(c.options.paths.list) }

\* the hooks the last call registered
NewHooks == SubSeq(hooks, Len(call.hooks) + 1, Len(hooks))

HooksOf(key, m) ==
    { i \in 1..Len(NewHooks) : NewHooks[i].key = key /\ NewHooks[i].method = m }

\* the last call gave key a shadow path and hooks
Received(key) ==
    LET ci == Derived(call, key)
    IN  /\ ~HasKey(call.paths, ci)
        /\ HasKey(paths, ci)
        /\ HasKey(tree, ci)
        /\ \A m \in Methods :
             \E i \in HooksOf(key, m) : NewHooks[i].caseInsensitivePath = ci

\* the last call added no shadow path and no hook for key and left its
\* descriptor and tree entry alone
Untouched(key) ==
    LET ci == Derived(call, key)
    IN  /\ HasKey(paths, ci) =>
             HasKey(call.paths, ci) /\ Get(paths, ci) = Get(call.paths, ci)
        /\ HasKey(tree, ci) =>
             HasKey(call.tree, ci) /\ Get(tree, ci) = Get(call.tree, ci)
        /\ \A i \in 1..Len(NewHooks) : NewHooks[i].key # key
        /\ Get(paths, key) = Get(call.paths, key)
        /\ Get(tree, key) = Get(call.tree, key)

\* the hooks registered before the last call are still registered, in place
OldHooksKept == SubSeq(hooks, 1, Len(call.hooks)) = call.hooks

\* C3: after a successful install every eligible field key has a path
\* prefix+key+suffix, in schema.paths and schema.tree, whose descriptor is a
\* copy of key's (itself unchanged) but for lowercase = true,
\* selected = options.select and path = prefix+key+suffix.
C3_ShadowIsPatchedClone ==
    (call.made /\ ~call.threw) =>
        \A key \in PreKeys(call) :
            Eligible(call, key) =>
                LET ci == Derived(call, key)
                IN  /\ HasKey(paths, ci)
                    /\ HasKey(tree, ci)
                    /\ Get(paths, ci) =
                          [Get(call.paths, key) EXCEPT
                              !.lowercase = TRUE,
                              !.selected  = call.options.select,
                              !.path      = ci]
                    /\ Get(paths, ci).path # key
                    /\ Get(tree, ci) = Get(call.tree, key)
                    /\ Get(paths, key) = Get(call.paths, key)
                    /\ Get(tree, key) = Get(call.tree, key)

\* a call with the default options gave the flagged field B the path __B
C3_Witness ==
    /\ call.made /\ ~call.threw
    /\ call.options = Defaults
    /\ HasKey(call.paths, <<"B">>)
    /\ HasKey(paths, <<"_", "_", "B">>)
    /\ Get(paths, <<"_", "_", "B">>) =
          [path      |-> <<"_", "_", "B">>,
           options   |-> [caseInsensitive |-> TRUE],
           lowercase |-> TRUE,
           selected  |-> FALSE]
    /\ Get(paths, <<"B">>) = Descriptor(<<"B">>, TRUE)

\* C4 as stated: a declared field receives a shadow path and hooks if and
\* only if it is eligible; a field that is not is left untouched.
C4_ShadowIffEligible ==
    call.made =>
        \A key \in PreKeys(call) :
            /\ Received(key) <=> Eligible(call, key)
            /\ ~Eligible(call, key) => Untouched(key)

\* C4 amended: a declared field receives a shadow path and hooks only if it
\* is eligible, and whenever it is eligible in a call that completes without
\* raising; a field that is not eligible is left untouched.
C4_ShadowIffEligibleUnlessRaised ==
    call.made =>
        \A key \in PreKeys(call) :
            /\ Received(key) => Eligible(call, key)
            /\ (~call.threw /\ Eligible(call, key)) => Received(key)
            /\ ~Eligible(call, key) => Untouched(key)

\* a successful call with usePathOption off shadowed the listed field and
\* left a flagged, unlisted field untouched
C4_Witness ==
    /\ call.made /\ ~call.threw
    /\ ~call.options.usePathOption
    /\ \E key \in PreKeys(call) :
          /\ Get(call.paths, key).options.caseInsensitive
          /\ ~Eligible(call, key)
          /\ ~HasKey(paths, Derived(call, key))
    /\ \E key \in PreKeys(call) :
          /\ ~Get(call.paths, key).options.caseInsensitive
          /\ Eligible(call, key)
          /\ Received(key)

\* the i-th field of the last call's schema is eligible and its derived path
\* exists when it is processed: declared, or derived from an earlier field
Colliding(i) ==
    LET keys == Keys(call.paths)
        ci   == Derived(call, keys[i])
    IN  /\ Eligible(call, keys[i])
        /\ \/ HasKey(call.paths, ci)
           \/ \E j \in 1..(i - 1) :
                 Eligible(call, keys[j]) /\ Derived(call, keys[j]) = ci

IsEligibleKey(key) == Eligible(call, key)

\* C5: when the derived path of an eligible field exists already, the call
\* raises and stops there: nothing is cloned or hooked for that field, no
\* later field is processed or changed, and the shadows and hooks of the
\* fields processed before it stay installed.
C5_CollisionAborts ==
    (call.made /\ \E i \in 1..Len(call.paths) : Colliding(i)) =>
        LET keys   == Keys(call.paths)
            b      == CHOOSE i \in 1..Len(keys) :
                        Colliding(i) /\ \A j \in 1..(i - 1) : ~Colliding(j)
            before == SelectSeq(SubSeq(keys, 1, b - 1), IsEligibleKey)
        IN  /\ call.threw
            /\ call.failed = <<keys[b]>>
            /\ call.visited = SubSeq(keys, 1, b)
            /\ Keys(paths) =
                  keys \o [j \in 1..Len(before) |-> Derived(call, before[j])]
            /\ Keys(tree) = Keys(paths)
            /\ \A key \in PreKeys(call) :
                  /\ Get(paths, key) = Get(call.paths, key)
                  /\ Get(tree, key) = Get(call.tree, key)
            /\ OldHooksKept
            /\ Len(NewHooks) = 3 * Len(before)
            /\ \A j \in b..Len(keys) :
                  \A i \in 1..Len(NewHooks) : NewHooks[i].key # keys[j]
            /\ \A j \in 1..Len(before) : Received(before[j])

\* a call shadowed one field, raised at the next and never reached a
\* further eligible field
C5_Witness ==
    /\ call.made /\ call.threw
    /\ Len(call.done) >= 1
    /\ Len(call.visited) < Len(call.paths)
    /\ Eligible(call, call.paths[Len(call.paths)].key)
    /\ Len(hooks) = Len(call.hooks) + 3 * Len(call.done)

\* C6: when a field is eligible in a successful call and again in a later
\* call with the same prefix and suffix, the later call raises; no derived
\* path is cloned twice and no hook is registered twice for the same field
\* and derived path.
C6_SecondInstallRaises ==
    /\ \A i, j \in 1..Len(calls) :
          ( /\ i < j
            /\ ~calls[i].threw
            /\ calls[i].options.prefix = calls[j].options.prefix
            /\ calls[i].options.suffix = calls[j].options.suffix
            /\ \E key \in PreKeys(calls[i]) :
                  Eligible(calls[i], key) /\ Eligible(calls[j], key) )
          => calls[j].threw
    /\ \A i, j \in 1..Len(calls) :
          \A a \in 1..Len(calls[i].done), b \in 1..Len(calls[j].done) :
             Derived(calls[i], calls[i].done[a]) = Derived(calls[j], calls[j].done[b])
                => (i = j /\ a = b)
    /\ \A a, b \in 1..Len(hooks) : hooks[a] = hooks[b] => a = b
    /\ \A a, b \in 1..Len(paths) : paths[a].key = paths[b].key => a = b

\* a second call with other options but the same prefix and suffix shadowed
\* a new field and raised at a field the first call had shadowed
C6_Witness ==
    /\ Len(calls) = 2
    /\ ~calls[1].threw /\ calls[1].done # <<>>
    /\ calls[2].threw /\ calls[2].done # <<>>
    /\ calls[1].options # calls[2].options
    /\ calls[1].options.prefix = calls[2].options.prefix
    /\ calls[1].options.suffix = calls[2].options.suffix
    /\ \E i \in 1..Len(calls[1].done) : calls[2].failed = <<calls[1].done[i]>>

====
